---- MODULE Spec2Model ----
(***************************************************************************)
(* Usage ledger (useUserUsage), plan grant / signup (useAuth) and the call *)
(* session controller (VoiceInterface) of the Tara voice-call client.      *)
(*                                                                         *)
(* The remote store holds one document per user.  Every ledger operation   *)
(* is an async function whose awaits are the interleaving points: an       *)
(* operation in flight is a record in the sequence ops, in issue order.    *)
(***************************************************************************)
EXTENDS Integers, Sequences, FiniteSets, TLC

\* ------------------------------------------------------------------ bounds
\* number of updateUserUsage calls issued in one behaviour
MaxCalls == 2
\* number of updateSubscription calls issued in one behaviour
MaxGrants == 1
\* cap of the conversation timer (seconds)
MaxTime == 21
\* startCall invocations that may await getUserMedia at once
MaxPending == 1
\* value at which the counts of endSession and returnToFlutterFlow
\* invocations saturate
EndCap == 2
\* loadUserUsage / refreshUserUsage calls made directly that may be in flight
MaxLoads == 1

\* ------------------------------------------------------- program constants
FREE_LIMIT_SECONDS == 20 * 60
DEBIT_SECONDS_Five == 10 \div 2

\* the interval of the periodic debit, and the amount debited
DEBIT_SECONDS == 10

\* deltas of direct updateUserUsage(callDurationSeconds) calls
Deltas == {DEBIT_SECONDS, FREE_LIMIT_SECONDS}
\* prices offered by the subscription modal, and one that is not in the table
Prices == {249, 1150, 2250, 999}
\* remaining balances of records left in the store by earlier use
InitRemaining == {0, 1, 15, FREE_LIMIT_SECONDS}

Max(a, b) == IF a >= b THEN a ELSE b

\* JavaScript  x || d  on numbers: 0 is falsy
OrDefault(x, d) == IF x = 0 THEN d ELSE x

\* --------------------------------------------------------------- documents
NoDoc == [exists |-> FALSE, plan |-> "", remaining |-> 0, total |-> 0]
Doc(p, r, t) == [exists |-> TRUE, plan |-> p, remaining |-> r, total |-> t]

NoUsage == [loaded |-> FALSE, total_conversation_seconds |-> 0, remaining_seconds |-> 0]
Usage(t, r) == [loaded |-> TRUE, total_conversation_seconds |-> t, remaining_seconds |-> r]

VARIABLES
    account,      \* identity provider: an account exists for the email
    user,         \* useAuth: user?.uid is set
    signupPc,     \* signup: "idle", or "setDoc" while awaiting setDoc
    store,        \* Firestore document user/<uid>
    usage,        \* useUserUsage: usage state (NoUsage = null)
    isLoading,    \* useUserUsage: isLoading state
    ops,          \* ledger operations in flight, in issue order
    hist,         \* history: what was issued so far
    mounted,              \* VoiceInterface is mounted (its effects and timers are live)
    isConnected,          \* VoiceInterface: isConnected state
    isTimerRunning,       \* VoiceInterface: isTimerRunning state (the interval runs)
    conversationTime,     \* VoiceInterface: conversationTime state
    permissionGranted,    \* VoiceInterface: permissionGranted state
    showSubscriptionModal,\* VoiceInterface: showSubscriptionModal state
    autoStartInitiatedRef,\* VoiceInterface: autoStartInitiatedRef.current
    micPending,           \* startCall invocations awaiting getUserMedia
    conv,                 \* external call session: "off", "starting", "on", "ending";
                          \* "failed": off, the last startSession rejected and the
                          \* toast "Call Failed" was shown
    endCalls,             \* endSession invocations since the last connect (saturating)
    isWebViewDetected,    \* VoiceInterface: isWebViewDetected state
    hasGetUserMedia,      \* the browser has navigator.mediaDevices.getUserMedia
    script,               \* razorpay.ts: window.Razorpay, the checkout script tag and
                          \* the newest call of loadRazorpayScript
    autoTimer,            \* the 2-second timeout of the auto-start in a WebView
    handoffs,             \* returnToFlutterFlow calls since the last connect (saturating)
    pay,                  \* SubscriptionModal: the payment started by handleContinue
    payOutcome,           \* SubscriptionModal: the toast the payment ended with
    timeText              \* what the formatters of useUserUsage return in this render

sessVars == <<mounted, isConnected, isTimerRunning, conversationTime, permissionGranted,
              showSubscriptionModal, autoStartInitiatedRef, micPending, conv, endCalls,
              isWebViewDetected, hasGetUserMedia, script, autoTimer>>
vars == <<account, user, signupPc, store, usage, isLoading, ops, hist, mounted,
          isConnected, isTimerRunning, conversationTime, permissionGranted,
          showSubscriptionModal, autoStartInitiatedRef, micPending, conv, endCalls,
          isWebViewDetected, hasGetUserMedia, script, autoTimer, handoffs, pay, payOutcome, timeText>>
flowVars == <<handoffs, pay, payOutcome, timeText>>

\* an operation in flight
Op(k, p, d, s) == [kind |-> k, pc |-> p, delta |-> d, snap |-> s]

\* ------------------------------------------------------- SubscriptionModal
\* prices of the plans offered by the modal
PlanPrices == {249, 1150, 2250}
maxRetries == 2

\* the response the gateway hands to the handler: which ids it carries
Responses == [razorpay_payment_id : BOOLEAN, razorpay_order_id : BOOLEAN]
NoResponse == [razorpay_payment_id |-> FALSE, razorpay_order_id |-> FALSE]

\* a payment: phase "idle", "opening" (attemptPayment awaits
\* openRazorpayGateway), "open" (the gateway dialog is shown), "granting"
\* (the handler awaits updateSubscription)
Pay(ph, price, n, r) == [phase |-> ph, price |-> price, retryCount |-> n, response |-> r]
NoPay == Pay("idle", 0, 0, NoResponse)

verifyPayment_PaymentIdOnly(response) == response.razorpay_payment_id

verifyPayment(response) == response.razorpay_payment_id /\ response.razorpay_order_id

GrantToast_Merged(success) ==
    IF success THEN "Payment Successful!" ELSE "Payment Failed"

\* the toast of the handler after updateSubscription returned or threw
GrantToast(success) ==
    IF success THEN "Payment Successful!" ELSE "Payment Successful but Update Failed"

RemoveAt(s, i) == [j \in 1..(Len(s) - 1) |-> IF j < i THEN s[j] ELSE s[j + 1]]

RECURSIVE SumSeq(_)
SumSeq(s) == IF s = <<>> THEN 0 ELSE Head(s) + SumSeq(Tail(s))

\* ------------------------------------------------------------ useUserUsage
NoUserId_Never == FALSE

\* the guard  !user?.uid  of the ledger operations
NoUserId == ~user

\* the hook instance whose operations are in flight is live: the view that
\* hosts it was not unmounted (or the hook is driven directly, without view)
HookLive == ~hist.unmounted

LoadedUsage_AbsentEmpty(d) ==
    IF d.exists
    THEN Usage(OrDefault(d.total, 0), d.remaining)
    ELSE Usage(0, 0)

\* loadUserUsage, the part after getDoc resolved with snapshot d
LoadedUsage(d) ==
    IF d.exists
    THEN Usage(OrDefault(d.total, 0), d.remaining)
    ELSE Usage(0, FREE_LIMIT_SECONDS)

\* Number.prototype.toString of a digit
Digit(n) ==
    CASE n = 0 -> "0" [] n = 1 -> "1" [] n = 2 -> "2" [] n = 3 -> "3"
      [] n = 4 -> "4" [] n = 5 -> "5" [] n = 6 -> "6" [] n = 7 -> "7"
      [] n = 8 -> "8" [] n = 9 -> "9"

\* Number.prototype.toString of a natural number: its decimal digits
RECURSIVE toString(_)
toString(n) == IF n < 10 THEN Digit(n) ELSE toString(n \div 10) \o Digit(n % 10)

\* String.prototype.padStart: pads on the left up to the width, never cuts
RECURSIVE padStart(_, _, _)
padStart(str, targetLength, padString) ==
    IF Len(str) >= targetLength THEN str
    ELSE padStart(padString \o str, targetLength, padString)

\* formatRemainingTime of a render whose cache is u
formatRemainingTime(u) ==
    IF ~u.loaded THEN "00:00"
    ELSE LET minutes == u.remaining_seconds \div 60
             seconds == u.remaining_seconds % 60
         IN  padStart(toString(minutes), 2, "0") \o ":"
                 \o padStart(toString(seconds), 2, "0")

\* formatRemainingTimeDetailed of a render whose cache is u
formatRemainingTimeDetailed(u) ==
    IF ~u.loaded THEN "00:00:00"
    ELSE LET hours == u.remaining_seconds \div 3600
             minutes == (u.remaining_seconds % 3600) \div 60
             seconds == u.remaining_seconds % 60
         IN  padStart(toString(hours), 2, "0") \o ":"
                 \o padStart(toString(minutes), 2, "0") \o ":"
                 \o padStart(toString(seconds), 2, "0")

\* the texts the formatters returned by the hook give in a render with cache u
Rendered(u) == [short |-> formatRemainingTime(u),
                detailed |-> formatRemainingTimeDetailed(u)]

\* updateUserUsage: currentRemaining computed from snapshot d
DebitRemainingRead(d) == OrDefault(d.remaining, FREE_LIMIT_SECONDS)

\* updateUserUsage: the fields written after reading snapshot d
DebitWrite(d, delta) ==
    IF d.exists
    THEN [d EXCEPT !.total = OrDefault(d.total, 0) + delta,
                   !.remaining = Max(0, DebitRemainingRead(d) - delta)]
    ELSE Doc("", Max(0, FREE_LIMIT_SECONDS - delta), delta)

canStartCall_AllowsZero(u) == IF ~u.loaded THEN FALSE ELSE u.remaining_seconds >= 0

canStartCall(u) == IF ~u.loaded THEN FALSE ELSE u.remaining_seconds > 0

\* ---------------------------------------------- VoiceInterface, pure parts
\* the dependency usage?.remaining_seconds of the effects (-1: undefined)
RemDep(u) == IF u.loaded THEN u.remaining_seconds ELSE -1

StartCallOutcome_NoBalanceCheck(u, l) ==
    IF l \/ ~u.loaded THEN "wait" ELSE "go"

\* startCall, its two early returns: "wait" (usage not loaded), "modal" (no
\* remaining time: the subscription modal is shown), else "go"
StartCallOutcome(u, l) ==
    IF l \/ ~u.loaded THEN "wait"
    ELSE IF ~canStartCall(u) THEN "modal"
    ELSE "go"

\* startCall asks for the microphone first: permission not yet granted (pg)
\* and the media API there
NeedsMic(pg) == ~pg /\ hasGetUserMedia

\* conversation.startSession / endSession as seen by the external session
StartSession(c) == IF c \in {"off", "failed"} THEN "starting" ELSE c
EndSession(c) == IF c = "on" THEN "ending" ELSE c

Saturate(n) == IF n < EndCap THEN n + 1 ELSE n

ExhaustFires_OnlyNegative(u2, c2) ==
    /\ mounted
    /\ RemDep(u2) # RemDep(usage) \/ c2 # isConnected
    /\ c2 /\ u2.loaded /\ u2.remaining_seconds < 0

\* the effect "auto-end" runs after a render that changed one of its
\* dependencies and calls endCall when the cached balance is used up
ExhaustFires(u2, c2) ==
    /\ mounted
    /\ RemDep(u2) # RemDep(usage) \/ c2 # isConnected
    /\ c2 /\ u2.loaded /\ u2.remaining_seconds <= 0

AutoFires_NoRef(u2, l2) ==
    /\ mounted
    /\ RemDep(u2) # RemDep(usage) \/ l2 # isLoading
    /\ ~l2 /\ u2.loaded /\ canStartCall(u2)

\* the effect "auto-start" runs after a render that changed one of its
\* dependencies and calls startCall once
AutoFires(u2, l2) ==
    /\ mounted
    /\ RemDep(u2) # RemDep(usage) \/ l2 # isLoading
    /\ ~autoStartInitiatedRef /\ ~l2 /\ u2.loaded /\ canStartCall(u2)

\* the timeout set by the auto-start effect in a WebView: setTimeout(() =>
\* startCall(), 2000) keeps the startCall of the render that set it, with
\* that render's usage, isUsageLoading and permissionGranted.  phase "late":
\* one second of the two has passed
AutoTimer(ph, u, l, pg) == [phase |-> ph, usage |-> u, isLoading |-> l, permissionGranted |-> pg]
NoAutoTimer == AutoTimer("none", NoUsage, FALSE, FALSE)

\* the effects of the render that follows new values u2, l2, c2 of usage,
\* isLoading and isConnected; timer0, conv0, ends0 are the values the
\* handler itself left in isTimerRunning, conv and endCalls
Effects(u2, l2, c2, timer0, conv0, ends0) ==
    LET ex == ExhaustFires(u2, c2)
        arm == AutoFires(u2, l2) /\ isWebViewDetected
        au == AutoFires(u2, l2) /\ ~isWebViewDetected /\ StartCallOutcome(u2, l2) = "go"
    IN  /\ autoTimer' = IF arm THEN AutoTimer("armed", u2, l2, permissionGranted)
                        ELSE autoTimer
        /\ isTimerRunning' = IF ex THEN FALSE ELSE timer0
        /\ endCalls' = IF ex THEN Saturate(ends0) ELSE ends0
        /\ conv' = IF ex THEN EndSession(conv0)
                   ELSE IF au /\ ~NeedsMic(permissionGranted) THEN StartSession(conv0)
                   ELSE conv0
        /\ autoStartInitiatedRef' = (autoStartInitiatedRef \/ AutoFires(u2, l2))
        /\ micPending' = IF au /\ NeedsMic(permissionGranted) THEN micPending + 1 ELSE micPending

\* --------------------------------------------------- useUserUsage, actions
\* some updateUserUsage call has not written yet
DebitUnwritten == \E j \in 1..Len(ops) : ops[j].kind = "debit"

\* hist.newestLoad becomes v, in the behaviours that record it
Newest(v) == IF hist.newestLoad = "off" THEN "off" ELSE v

\* no load was issued after the load ops[i]
NewestLoad(i) ==
    /\ hist.newestLoad = "pending"
    /\ \A j \in 1..Len(ops) : j > i => ops[j].kind # "load"

\* getDoc of a load resolves: setUsage, setIsLoading(false), then the render
LoadDone(i) ==
    /\ ops[i].kind = "load"
    /\ usage' = IF HookLive THEN LoadedUsage(store) ELSE usage
    /\ isLoading' = IF HookLive THEN FALSE ELSE isLoading
    /\ ops' = RemoveAt(ops, i)
    /\ Effects(IF HookLive THEN LoadedUsage(store) ELSE usage,
               IF HookLive THEN FALSE ELSE isLoading,
               isConnected, isTimerRunning, conv, endCalls)
    /\ hist' = [hist EXCEPT !.loadFailed = FALSE,
                            !.newestLoad = IF NewestLoad(i) THEN "ok" ELSE @]
    /\ UNCHANGED <<account, user, signupPc, store, mounted, isConnected,
                   conversationTime, permissionGranted, showSubscriptionModal,
                   isWebViewDetected, hasGetUserMedia, script>>
    /\ timeText' = Rendered(IF HookLive THEN LoadedUsage(store) ELSE usage)
    /\ UNCHANGED <<handoffs, pay, payOutcome>>

LoadFail_NoFinally(i) ==
    /\ ops[i].kind = "load"
    /\ ops' = RemoveAt(ops, i)
    /\ hist' = [hist EXCEPT !.loadFailed = TRUE,
                            !.newestLoad = IF NewestLoad(i) THEN "failed" ELSE @]
    /\ UNCHANGED <<account, user, signupPc, store, usage, isLoading>>
    /\ UNCHANGED sessVars
    /\ UNCHANGED flowVars

\* getDoc of a load rejects: catch logs, finally clears isLoading
LoadFail(i) ==
    /\ ops[i].kind = "load"
    /\ isLoading' = IF HookLive THEN FALSE ELSE isLoading
    /\ ops' = RemoveAt(ops, i)
    /\ Effects(usage, IF HookLive THEN FALSE ELSE isLoading,
               isConnected, isTimerRunning, conv, endCalls)
    /\ hist' = [hist EXCEPT !.loadFailed = TRUE,
                            !.newestLoad = IF NewestLoad(i) THEN "failed" ELSE @]
    /\ UNCHANGED <<account, user, signupPc, store, usage, mounted, isConnected,
                   conversationTime, permissionGranted, showSubscriptionModal,
                   isWebViewDetected, hasGetUserMedia, script>>
    /\ UNCHANGED flowVars

\* direct loadUserUsage / refreshUserUsage calls in flight
LoadsInFlight == Cardinality({j \in 1..Len(ops) : ops[j].kind = "load"})

\* loadUserUsage() is called directly: setIsLoading(true), getDoc is awaited
LoadIssue ==
    /\ signupPc = "idle"
    /\ IF NoUserId
       THEN /\ hist' = [hist EXCEPT !.denied = @ \cup {"loadUserUsage"}]
            /\ UNCHANGED <<ops, isLoading>>
       ELSE /\ LoadsInFlight < MaxLoads
            /\ isLoading' = TRUE
            /\ ops' = Append(ops, Op("load", "getDoc", 0, NoDoc))
            /\ hist' = [hist EXCEPT !.newestLoad = Newest("pending")]
    /\ UNCHANGED <<account, user, signupPc, store, usage>>
    /\ UNCHANGED sessVars
    /\ UNCHANGED flowVars

\* refreshUserUsage() is called directly: loadUserUsage when a user is set
RefreshIssue ==
    /\ signupPc = "idle"
    /\ IF ~user
       THEN /\ hist' = [hist EXCEPT !.denied = @ \cup {"refreshUserUsage"}]
            /\ UNCHANGED <<ops, isLoading>>
       ELSE IF NoUserId
       THEN /\ hist' = [hist EXCEPT !.denied = @ \cup {"loadUserUsage"}]
            /\ UNCHANGED <<ops, isLoading>>
       ELSE /\ LoadsInFlight < MaxLoads
            /\ isLoading' = TRUE
            /\ ops' = Append(ops, Op("load", "getDoc", 0, NoDoc))
            /\ hist' = [hist EXCEPT !.newestLoad = Newest("pending")]
    /\ UNCHANGED <<account, user, signupPc, store, usage>>
    /\ UNCHANGED sessVars
    /\ UNCHANGED flowVars

\* updateUserUsage(delta) is called directly and awaits getDoc
DebitIssue(delta) ==
    /\ signupPc = "idle"
    /\ IF NoUserId
       THEN /\ hist' = [hist EXCEPT !.denied = @ \cup {"updateUserUsage"}]
            /\ UNCHANGED ops
       ELSE /\ Len(hist.calls) < MaxCalls
            /\ ops' = Append(ops, Op("debit", "getDoc", delta, NoDoc))
            /\ hist' = [hist EXCEPT !.calls = Append(@, delta),
                                    !.overlap = @ \/ DebitUnwritten]
    /\ UNCHANGED <<account, user, signupPc, store, usage, isLoading>>
    /\ UNCHANGED sessVars
    /\ UNCHANGED flowVars

\* getDoc of a debit resolves with the current document
DebitGet(i) ==
    /\ ops[i].kind = "debit"
    /\ ops[i].pc = "getDoc"
    /\ ops' = [ops EXCEPT ![i] = Op("debit", "write", ops[i].delta, store)]
    /\ UNCHANGED <<account, user, signupPc, store, usage, isLoading, hist>>
    /\ UNCHANGED sessVars
    /\ UNCHANGED flowVars

DebitPut_NoReload(i) ==
    /\ ops[i].kind = "debit"
    /\ ops[i].pc = "write"
    /\ ops[i].snap.exists => store.exists
    /\ store' = IF ops[i].snap.exists
                THEN [store EXCEPT !.total = DebitWrite(ops[i].snap, ops[i].delta).total,
                                   !.remaining = DebitWrite(ops[i].snap, ops[i].delta).remaining]
                ELSE DebitWrite(ops[i].snap, ops[i].delta)
    /\ ops' = RemoveAt(ops, i)
    /\ UNCHANGED <<account, user, signupPc, usage, isLoading, hist>>
    /\ UNCHANGED sessVars
    /\ UNCHANGED flowVars

\* updateDoc (existing document) or setDoc (absent) of a debit resolves;
\* loadUserUsage is called: setIsLoading(true), getDoc is awaited
DebitPut(i) ==
    /\ ops[i].kind = "debit"
    /\ ops[i].pc = "write"
    /\ ops[i].snap.exists => store.exists
    /\ store' = IF ops[i].snap.exists
                THEN [store EXCEPT !.total = DebitWrite(ops[i].snap, ops[i].delta).total,
                                   !.remaining = DebitWrite(ops[i].snap, ops[i].delta).remaining]
                ELSE DebitWrite(ops[i].snap, ops[i].delta)
    /\ isLoading' = IF HookLive THEN TRUE ELSE isLoading
    /\ ops' = IF HookLive THEN Append(RemoveAt(ops, i), Op("load", "getDoc", 0, NoDoc))
              ELSE RemoveAt(ops, i)
    /\ hist' = IF HookLive THEN [hist EXCEPT !.newestLoad = Newest("pending")] ELSE hist
    /\ UNCHANGED <<account, user, signupPc, usage>>
    /\ UNCHANGED sessVars
    /\ UNCHANGED flowVars

DebitFail_Retry(i) ==
    /\ ops[i].kind = "debit"
    /\ ops' = Append(RemoveAt(ops, i), Op("debit", "getDoc", ops[i].delta, NoDoc))
    /\ UNCHANGED <<account, user, signupPc, store, usage, isLoading, hist>>
    /\ UNCHANGED sessVars
    /\ UNCHANGED flowVars

\* getDoc, updateDoc or setDoc of a debit rejects: catch logs, nothing else
DebitFail(i) ==
    /\ ops[i].kind = "debit"
    /\ ops' = RemoveAt(ops, i)
    /\ UNCHANGED <<account, user, signupPc, store, usage, isLoading, hist>>
    /\ UNCHANGED sessVars
    /\ UNCHANGED flowVars

PlanName_AcceptsAny(price) ==
    CASE price = 1150 -> "Pro"
      [] price = 2250 -> "Premium"
      [] OTHER -> "Basic"

\* ----------------------------------------------------------------- useAuth
PlanName(price) ==
    CASE price = 249 -> "Basic"
      [] price = 1150 -> "Pro"
      [] price = 2250 -> "Premium"
      [] OTHER -> ""

PlanSeconds_Minutes(price) ==
    CASE price = 249 -> 40
      [] price = 1150 -> 200
      [] price = 2250 -> 400
      [] OTHER -> 0

PlanSeconds(price) ==
    CASE price = 249 -> 40 * 60
      [] price = 1150 -> 200 * 60
      [] price = 2250 -> 400 * 60
      [] OTHER -> 0

\* updateSubscription(plan) is called: a price outside the table returns
\* failure at once, otherwise updateDoc is awaited
GrantIssue(price) ==
    /\ signupPc = "idle"
    /\ IF NoUserId
       THEN /\ hist' = [hist EXCEPT !.denied = @ \cup {"updateSubscription"}]
            /\ UNCHANGED ops
       ELSE /\ hist.grants < MaxGrants
            /\ ops' = IF PlanName(price) = "" THEN ops
                      ELSE Append(ops, Op("grant", "write", price, NoDoc))
            /\ hist' = [hist EXCEPT !.grants = @ + 1]
    /\ UNCHANGED <<account, user, signupPc, store, usage, isLoading>>
    /\ UNCHANGED sessVars
    /\ UNCHANGED flowVars

\* updateDoc of a grant resolves (it needs an existing document):
\* updateSubscription returns success.  When the payment handler awaited it:
\* toast, onSelectPlan (handlePlanSelection: refreshUserUsage) and onClose
GrantPut(i) ==
    /\ ops[i].kind = "grant"
    /\ store.exists
    /\ store' = [store EXCEPT !.plan = PlanName(ops[i].delta),
                              !.remaining = PlanSeconds(ops[i].delta),
                              !.total = 0]
    /\ hist' = [hist EXCEPT !.granted = TRUE,
                            !.newestLoad = IF pay.phase = "granting" /\ HookLive /\ ~NoUserId
                                           THEN Newest("pending") ELSE @]
    /\ IF pay.phase = "granting"
       THEN /\ payOutcome' = GrantToast(TRUE)
            /\ pay' = NoPay
            /\ showSubscriptionModal' = IF mounted THEN FALSE ELSE showSubscriptionModal
            /\ isLoading' = IF HookLive /\ ~NoUserId THEN TRUE ELSE isLoading
            /\ ops' = IF NoUserId \/ ~HookLive THEN RemoveAt(ops, i)
                      ELSE Append(RemoveAt(ops, i), Op("load", "getDoc", ops[i].delta, NoDoc))
       ELSE /\ ops' = RemoveAt(ops, i)
            /\ UNCHANGED <<payOutcome, pay, showSubscriptionModal, isLoading>>
    /\ UNCHANGED <<account, user, signupPc, usage, mounted, isConnected, isTimerRunning,
                   conversationTime, permissionGranted, autoStartInitiatedRef, micPending,
                   conv, endCalls, isWebViewDetected, hasGetUserMedia, script, autoTimer, handoffs, timeText>>

\* updateDoc of a grant rejects (not-found, permission, network):
\* updateSubscription returns failure.  When the payment handler awaited it:
\* the toast "Payment Successful but Update Failed", nothing else
GrantFail(i) ==
    /\ ops[i].kind = "grant"
    /\ ops' = RemoveAt(ops, i)
    /\ IF pay.phase = "granting"
       THEN /\ payOutcome' = GrantToast(FALSE)
            /\ pay' = NoPay
       ELSE UNCHANGED <<payOutcome, pay>>
    /\ UNCHANGED <<account, user, signupPc, store, usage, isLoading, hist, handoffs, timeText>>
    /\ UNCHANGED sessVars

\* ------------------------------------------------------- SubscriptionModal
\* "Continue to Payment" is pressed (enabled while not processing):
\* handleContinue starts attemptPayment, which awaits openRazorpayGateway.
\* One purchase is followed at a time: the gateway dialog covers the modal
PayContinue(price) ==
    /\ mounted
    /\ showSubscriptionModal
    /\ pay.phase = "idle"
    /\ hist.grants < MaxGrants
    /\ pay' = Pay("opening", price, 0, NoResponse)
    /\ hist' = [hist EXCEPT !.grants = @ + 1]
    /\ UNCHANGED <<account, user, signupPc, store, usage, isLoading, ops, handoffs,
                   payOutcome, timeText>>
    /\ UNCHANGED sessVars

\* an error thrown inside the try of openRazorpayGateway: its message, and
\* which of the words that the two catch blocks look for the message includes
GatewayError(t, k) == [text |-> t, includes |-> k]

\* the errors of loadRazorpayScript, "Razorpay not available", and errors
\* thrown by the Razorpay object itself (a blocked frame, a rejected key)
ScriptErrors ==
    { GatewayError("Razorpay script load timeout - existing script", {"timeout"}),
      GatewayError("Razorpay script load timeout - new script", {"timeout"}),
      GatewayError("Razorpay failed to initialize after script load", {}),
      GatewayError("Failed to load Razorpay script - network error", {"network"}),
      GatewayError("Razorpay not available after script load", {}),
      GatewayError("Refused to frame checkout: violates CSP", {"CSP"}),
      GatewayError("400 Bad Request", {"400"}) }

\* the catch of openRazorpayGateway throws a new Error with one of four
\* messages; none of them includes "400", "Bad Request", "timeout", "CSP" or
\* "network" (String.includes is case-sensitive)
openRazorpayGatewayError(e) ==
    IF "timeout" \in e.includes
    THEN GatewayError("Payment gateway is taking too long to load. Please check your internet connection and try again.", {})
    ELSE IF "CSP" \in e.includes
    THEN GatewayError("Security policy is blocking payment gateway. Please contact support.", {})
    ELSE IF "network" \in e.includes
    THEN GatewayError("Network error while loading payment gateway. Please check your connection and try again.", {})
    ELSE GatewayError("Unable to load payment gateway. Please refresh the page and try again.", {})

\* attemptPayment's catch: shouldRetry, from the message of the error caught
ShouldRetry(error, liveKeyInDev) ==
    IF "400" \in error.includes THEN ~liveKeyInDev
    ELSE IF "timeout" \in error.includes THEN TRUE
    ELSE IF "CSP" \in error.includes THEN FALSE
    ELSE TRUE

\* openRazorpayGateway throws: attemptPayment's catch retries while
\* retryCount < maxRetries and the error is one to retry, else "Payment Failed"
PayOpenFail(shouldRetry) ==
    /\ pay.phase = "opening"
    /\ IF pay.retryCount < maxRetries /\ shouldRetry
       THEN /\ pay' = [pay EXCEPT !.retryCount = @ + 1]
            /\ UNCHANGED payOutcome
       ELSE /\ pay' = NoPay
            /\ payOutcome' = "Payment Failed"
    /\ UNCHANGED <<account, user, signupPc, store, usage, isLoading, ops, hist, handoffs, timeText>>
    /\ UNCHANGED sessVars

\* openRazorpayGateway resolves: the gateway dialog is open
PayOpened ==
    /\ pay.phase = "opening"
    /\ pay' = [pay EXCEPT !.phase = "open"]
    /\ UNCHANGED <<account, user, signupPc, store, usage, isLoading, ops, hist, handoffs,
                   payOutcome, timeText>>
    /\ UNCHANGED sessVars

\* the gateway dialog is dismissed: modal.ondismiss
PayDismiss ==
    /\ pay.phase = "open"
    /\ pay' = NoPay
    /\ UNCHANGED <<account, user, signupPc, store, usage, isLoading, ops, hist, handoffs,
                   payOutcome, timeText>>
    /\ UNCHANGED sessVars

\* the gateway calls handler(response): verifyPayment, then updateSubscription
\* (which returns failure at once without a user or for an unknown price)
PayHandler(response) ==
    /\ pay.phase = "open"
    /\ IF ~verifyPayment(response)
       THEN /\ payOutcome' = "Payment Verification Failed"
            /\ pay' = NoPay
            /\ UNCHANGED ops
       ELSE IF NoUserId \/ PlanName(pay.price) = ""
       THEN /\ payOutcome' = GrantToast(FALSE)
            /\ pay' = NoPay
            /\ UNCHANGED ops
       ELSE /\ pay' = [pay EXCEPT !.phase = "granting", !.response = response]
            /\ ops' = Append(ops, Op("grant", "write", pay.price, NoDoc))
            /\ UNCHANGED payOutcome
    /\ UNCHANGED <<account, user, signupPc, store, usage, isLoading, hist, handoffs, timeText>>
    /\ UNCHANGED sessVars

\* signup: createUserWithEmailAndPassword resolves; the auth listener sets user
SignupCreate ==
    /\ ~account
    /\ signupPc = "idle"
    /\ account' = TRUE
    /\ user' = TRUE
    /\ signupPc' = "setDoc"
    /\ UNCHANGED <<store, usage, isLoading, ops, hist>>
    /\ UNCHANGED sessVars
    /\ UNCHANGED flowVars

\* signup: setDoc resolves
SignupSetDoc ==
    /\ signupPc = "setDoc"
    /\ store' = Doc("Free Trial", 1200, 0)
    /\ signupPc' = "idle"
    /\ hist' = [hist EXCEPT !.granted = TRUE]
    /\ UNCHANGED <<account, user, usage, isLoading, ops>>
    /\ UNCHANGED sessVars
    /\ UNCHANGED flowVars

\* signup: setDoc rejects
SignupSetDocFail ==
    /\ signupPc = "setDoc"
    /\ signupPc' = "idle"
    /\ UNCHANGED <<account, user, store, usage, isLoading, ops, hist>>
    /\ UNCHANGED sessVars
    /\ UNCHANGED flowVars

\* ---------------------------------------------------------- VoiceInterface
\* the call view mounts with fresh state; the effect of useUserUsage on
\* user?.uid calls loadUserUsage.  One lifetime of the view is followed
Mount(webView) ==
    /\ ~mounted
    /\ user
    /\ signupPc = "idle"
    /\ ~hist.unmounted
    /\ mounted' = TRUE
    /\ usage' = NoUsage
    /\ isLoading' = TRUE
    /\ ops' = Append(ops, Op("load", "getDoc", 0, NoDoc))
    /\ isConnected' = FALSE
    /\ isTimerRunning' = FALSE
    /\ conversationTime' = 0
    /\ permissionGranted' = FALSE
    /\ showSubscriptionModal' = FALSE
    /\ autoStartInitiatedRef' = FALSE
    /\ isWebViewDetected' = webView
    /\ UNCHANGED <<hasGetUserMedia, script>>
    /\ hist' = [hist EXCEPT !.newestLoad = Newest("pending")]
    /\ UNCHANGED <<account, user, signupPc, store, micPending, conv, endCalls,
                   autoTimer>>
    /\ timeText' = Rendered(NoUsage)
    /\ UNCHANGED <<handoffs, pay, payOutcome>>

ClearInterval_Skipped(running) == running

\* the cleanup of the timer effect: clearInterval(timerRef.current)
ClearInterval(running) == FALSE

IsWrite(o) == o.kind # "load"

\* the call view unmounts: the cleanups of its effects run.  The one of the
\* effect on isConnected calls endCall() when connected; the ones of the
\* timer effect and of the poll clear their intervals.  The state of the
\* instance is gone (shown as the initial values), except the cache, which
\* the closures that outlive the view (the auto-start timeout) still see;
\* the loads in flight, which would only set state, are dropped
Unmount ==
    /\ mounted
    /\ mounted' = FALSE
    /\ endCalls' = IF isConnected THEN Saturate(endCalls) ELSE endCalls
    /\ conv' = IF isConnected THEN EndSession(conv) ELSE conv
    /\ isTimerRunning' = ClearInterval(isTimerRunning)
    /\ ops' = SelectSeq(ops, IsWrite)
    /\ isConnected' = FALSE
    /\ conversationTime' = 0
    /\ permissionGranted' = FALSE
    /\ showSubscriptionModal' = FALSE
    /\ autoStartInitiatedRef' = FALSE
    /\ isWebViewDetected' = FALSE
    /\ UNCHANGED <<hasGetUserMedia, script>>
    /\ hist' = [hist EXCEPT !.loadFailed = FALSE, !.unmounted = TRUE,
                            !.newestLoad = Newest("none")]
    /\ UNCHANGED <<account, user, signupPc, store, usage, isLoading, micPending,
                   autoTimer>>
    /\ UNCHANGED flowVars

\* the Call / Subscribe button (disabled while connected, loading or without
\* usage) is pressed: startCall()
StartCall ==
    /\ mounted
    /\ ~(isConnected \/ (~usage.loaded \/ isLoading))
    /\ micPending < MaxPending
    /\ IF StartCallOutcome(usage, isLoading) = "wait"
       THEN UNCHANGED <<showSubscriptionModal, micPending, conv>>
       ELSE IF StartCallOutcome(usage, isLoading) = "modal"
       THEN /\ showSubscriptionModal' = TRUE
            /\ UNCHANGED <<micPending, conv>>
       ELSE IF NeedsMic(permissionGranted)
       THEN /\ micPending' = micPending + 1
            /\ UNCHANGED <<showSubscriptionModal, conv>>
       ELSE /\ conv' = StartSession(conv)
            /\ UNCHANGED <<showSubscriptionModal, micPending>>
    /\ UNCHANGED <<account, user, signupPc, store, usage, isLoading, ops, hist, mounted,
                   isConnected, isTimerRunning, conversationTime, permissionGranted,
                   autoStartInitiatedRef, endCalls, isWebViewDetected, hasGetUserMedia, script, autoTimer>>
    /\ UNCHANGED flowVars

MicDone_DeniedStops(granted) ==
    /\ micPending > 0
    /\ micPending' = micPending - 1
    /\ permissionGranted' = IF mounted THEN granted ELSE permissionGranted
    /\ conv' = IF granted THEN StartSession(conv) ELSE conv
    /\ UNCHANGED <<account, user, signupPc, store, usage, isLoading, ops, hist, mounted,
                   isConnected, isTimerRunning, conversationTime, showSubscriptionModal,
                   autoStartInitiatedRef, endCalls, isWebViewDetected, hasGetUserMedia, script,
                   autoTimer>>
    /\ UNCHANGED flowVars

\* startCall: getUserMedia resolves (granted) or rejects; either way
\* conversation.startSession is called next
MicDone(granted) ==
    /\ micPending > 0
    /\ micPending' = micPending - 1
    /\ permissionGranted' = IF mounted THEN granted ELSE permissionGranted
    /\ conv' = StartSession(conv)
    /\ UNCHANGED <<account, user, signupPc, store, usage, isLoading, ops, hist, mounted,
                   isConnected, isTimerRunning, conversationTime, showSubscriptionModal,
                   autoStartInitiatedRef, endCalls, isWebViewDetected, hasGetUserMedia, script, autoTimer>>
    /\ UNCHANGED flowVars

\* the timeout of the auto-start fires: startCall() of the render that set it
AutoStartTimeout ==
    /\ autoTimer.phase # "none"
    /\ autoTimer' = NoAutoTimer
    /\ LET out == StartCallOutcome(autoTimer.usage, autoTimer.isLoading)
       IN  /\ showSubscriptionModal' = IF out = "modal" /\ mounted THEN TRUE
                                       ELSE showSubscriptionModal
           /\ micPending' = IF out = "go" /\ NeedsMic(autoTimer.permissionGranted)
                            THEN micPending + 1 ELSE micPending
           /\ conv' = IF out = "go" /\ ~NeedsMic(autoTimer.permissionGranted)
                      THEN StartSession(conv) ELSE conv
    /\ UNCHANGED <<account, user, signupPc, store, usage, isLoading, ops, hist, mounted,
                   isConnected, isTimerRunning, conversationTime, permissionGranted,
                   autoStartInitiatedRef, endCalls, isWebViewDetected, hasGetUserMedia, script>>
    /\ UNCHANGED flowVars

\* handleCloseSubscriptionModal
CloseModal ==
    /\ mounted
    /\ showSubscriptionModal
    /\ showSubscriptionModal' = FALSE
    /\ UNCHANGED <<account, user, signupPc, store, usage, isLoading, ops, hist, mounted,
                   isConnected, isTimerRunning, conversationTime, permissionGranted,
                   autoStartInitiatedRef, micPending, conv, endCalls, isWebViewDetected, hasGetUserMedia, script,
                   autoTimer>>
    /\ UNCHANGED flowVars

OnConnect_NoReset ==
    /\ conv = "starting"
    /\ isConnected' = IF mounted THEN TRUE ELSE isConnected
    /\ conversationTime' = conversationTime
    /\ Effects(usage, isLoading, IF mounted THEN TRUE ELSE isConnected,
               IF mounted THEN TRUE ELSE isTimerRunning, "on", 0)
    /\ handoffs' = 0
    /\ hist' = IF mounted THEN [hist EXCEPT !.connectCalls = Len(hist.calls)] ELSE hist
    /\ UNCHANGED <<account, user, signupPc, store, usage, isLoading, ops, mounted,
                   permissionGranted, showSubscriptionModal, isWebViewDetected, hasGetUserMedia, script, pay,
                   payOutcome, timeText>>

\* the external session connects: onConnect, then the render
OnConnect ==
    /\ conv = "starting"
    /\ isConnected' = IF mounted THEN TRUE ELSE isConnected
    /\ conversationTime' = IF mounted THEN 0 ELSE conversationTime
    /\ Effects(usage, isLoading, IF mounted THEN TRUE ELSE isConnected,
               IF mounted THEN TRUE ELSE isTimerRunning, "on", 0)
    /\ handoffs' = 0
    /\ hist' = IF mounted THEN [hist EXCEPT !.connectCalls = Len(hist.calls)] ELSE hist
    /\ UNCHANGED <<account, user, signupPc, store, usage, isLoading, ops, mounted,
                   permissionGranted, showSubscriptionModal, isWebViewDetected, hasGetUserMedia, script, pay,
                   payOutcome, timeText>>

\* conversation.startSession rejects: startCall's catch shows "Call Failed"
StartFail ==
    /\ conv = "starting"
    /\ conv' = "failed"
    /\ UNCHANGED <<account, user, signupPc, store, usage, isLoading, ops, hist, mounted,
                   isConnected, isTimerRunning, conversationTime, permissionGranted,
                   showSubscriptionModal, autoStartInitiatedRef, micPending, endCalls,
                   isWebViewDetected, hasGetUserMedia, script, autoTimer>>
    /\ UNCHANGED flowVars

\* the 1-second interval of the timer effect fires; every 10th second it
\* calls updateUserUsage(10)
Tick ==
    /\ isTimerRunning
    /\ conversationTime < MaxTime
    /\ autoTimer.phase # "late"
    /\ autoTimer' = IF autoTimer.phase = "armed" THEN [autoTimer EXCEPT !.phase = "late"]
                    ELSE autoTimer
    /\ conversationTime' = conversationTime + 1
    /\ IF (conversationTime + 1) % DEBIT_SECONDS = 0 /\ user
       THEN /\ Len(hist.calls) < MaxCalls
            /\ ops' = Append(ops, Op("debit", "getDoc", DEBIT_SECONDS, NoDoc))
            /\ hist' = [hist EXCEPT !.calls = Append(@, DEBIT_SECONDS),
                                    !.overlap = @ \/ DebitUnwritten]
       ELSE UNCHANGED <<ops, hist>>
    /\ UNCHANGED <<account, user, signupPc, store, usage, isLoading, mounted,
                   isConnected, isTimerRunning, permissionGranted, showSubscriptionModal,
                   autoStartInitiatedRef, micPending, conv, endCalls, isWebViewDetected, hasGetUserMedia, script>>
    /\ UNCHANGED flowVars

\* the 1-second exhaustion poll fires and finds the cached balance used up:
\* endCall()
Poll ==
    /\ mounted
    /\ isConnected /\ usage.loaded
    /\ usage.remaining_seconds <= 0
    /\ isTimerRunning' = FALSE
    /\ conv' = EndSession(conv)
    /\ endCalls' = Saturate(endCalls)
    /\ UNCHANGED <<account, user, signupPc, store, usage, isLoading, ops, hist, mounted,
                   isConnected, conversationTime, permissionGranted, showSubscriptionModal,
                   autoStartInitiatedRef, micPending, isWebViewDetected, hasGetUserMedia, script, autoTimer>>
    /\ UNCHANGED flowVars

\* the external session ends (after endSession, or by itself): onDisconnect;
\* the render then runs the cleanup of the effect on isConnected, whose
\* closure still has isConnected = true and calls endCall()
OnDisconnect ==
    /\ conv \in {"on", "ending"}
    /\ isConnected' = IF mounted THEN FALSE ELSE isConnected
    /\ Effects(usage, isLoading, IF mounted THEN FALSE ELSE isConnected,
               IF mounted THEN FALSE ELSE isTimerRunning, "off",
               IF mounted /\ isConnected THEN Saturate(endCalls) ELSE endCalls)
    /\ handoffs' = Saturate(handoffs)
    /\ UNCHANGED <<account, user, signupPc, store, usage, isLoading, ops, hist, mounted,
                   conversationTime, permissionGranted, showSubscriptionModal,
                   isWebViewDetected, hasGetUserMedia, script, pay, payOutcome, timeText>>

\* the external session reports an error: onError stops the timer and calls
\* returnToFlutterFlow; the session itself may go on or disconnect later
OnError ==
    /\ conv \in {"on", "ending"}
    /\ isTimerRunning' = IF mounted THEN FALSE ELSE isTimerRunning
    /\ handoffs' = Saturate(handoffs)
    /\ UNCHANGED <<account, user, signupPc, store, usage, isLoading, ops, hist, mounted,
                   isConnected, conversationTime, permissionGranted, showSubscriptionModal,
                   autoStartInitiatedRef, micPending, conv, endCalls, isWebViewDetected, hasGetUserMedia, script,
                   autoTimer, pay, payOutcome, timeText>>

\* conversation.endSession rejects: endCall's catch logs; the timer was
\* stopped before the await, nothing else is set and the session stays
EndFail ==
    /\ conv = "ending"
    /\ conv' = "on"
    /\ UNCHANGED <<account, user, signupPc, store, usage, isLoading, ops, hist, mounted,
                   isConnected, isTimerRunning, conversationTime, permissionGranted,
                   showSubscriptionModal, autoStartInitiatedRef, micPending, endCalls,
                   isWebViewDetected, hasGetUserMedia, script, autoTimer>>
    /\ UNCHANGED flowVars

\* --------------------------------------------------------- ledger behaviours
\* calls: the deltas of the updateUserUsage calls issued; overlap: one was
\* issued before the write of an earlier one resolved; grants: number of
\* updateSubscription calls; granted: a grant or signup wrote the record;
\* loadFailed: the load that completed last failed; store0: the record at
\* the start; unmounted: the call view was unmounted; denied: the ledger
\* operations that were called without a user id and returned at their guard;
\* connectCalls: the number of calls issued before the last onConnect;
\* newestLoad: the state of the load that was issued last ("none", "pending",
\* "ok", "failed"), or "off" in the behaviours that do not record it
NoHist == [calls |-> <<>>, overlap |-> FALSE, grants |-> 0, granted |-> FALSE,
           loadFailed |-> FALSE, store0 |-> NoDoc, unmounted |-> FALSE, denied |-> {},
           connectCalls |-> 0, newestLoad |-> "off"]

\* ------------------------------------------------------------- razorpay.ts
\* loadRazorpayScript: checks of window.Razorpay before it gives up on a
\* script tag that was already in the document, and after onload of a new one
maxAttemptsExisting == 50
maxAttemptsOnload == 20

\* window.Razorpay is undefined, the document has no checkout script tag,
\* loadRazorpayScript has not been called
NoScript ==
    [Razorpay       |-> FALSE,   \* window.Razorpay is defined
     existingScript |-> FALSE,   \* a checkout script tag is in the document
     element        |-> "none",  \* that tag: "none", "loading", "loaded", "failed"
     listening      |-> FALSE,   \* the newest call created the tag (onload, onerror)
     promise        |-> "none",  \* newest call: "none", "pending", "resolved", "rejected"
     reason         |-> "",      \* message of the Error it rejected with
     timeout        |-> FALSE,   \* its 10-second timeout is armed
     poll           |-> "off",   \* its pending checkRazorpay timer: "existing", "onload"
     attempts       |-> 0]       \* attempts of that checkRazorpay loop

\* resolve() or reject(new Error(reason)): a settled promise stays as it is
settle(s, result, reason) ==
    IF s.promise = "pending"
    THEN [s EXCEPT !.promise = result, !.reason = reason]
    ELSE s

maxAttempts(loop) ==
    IF loop = "existing" THEN maxAttemptsExisting ELSE maxAttemptsOnload

\* one run of checkRazorpay of the given loop
checkRazorpay(s, loop) ==
    LET n == s.attempts + 1
    IN  IF s.Razorpay
        THEN settle([s EXCEPT !.attempts = n, !.poll = "off"], "resolved", "")
        ELSE IF n >= maxAttempts(loop)
        THEN settle([s EXCEPT !.attempts = n, !.poll = "off"], "rejected",
                    IF loop = "existing"
                    THEN "Razorpay script load timeout - existing script"
                    ELSE "Razorpay failed to initialize after script load")
        ELSE [s EXCEPT !.attempts = n, !.poll = loop]

\* the variables of the hooks and the views, which razorpay.ts does not touch
appVars == <<account, user, signupPc, store, usage, isLoading, ops, hist, mounted,
             isConnected, isTimerRunning, conversationTime, permissionGranted,
             showSubscriptionModal, autoStartInitiatedRef, micPending, conv, endCalls,
             isWebViewDetected, hasGetUserMedia, autoTimer, handoffs, pay, payOutcome,
             timeText>>

\* loadRazorpayScript() is called (openRazorpayGateway awaits it, so the call
\* before has settled; the timers and listeners of that call can only touch
\* its own settled promise and are dropped)
LoadRazorpayScript ==
    /\ script.promise # "pending"
    /\ LET call == [script EXCEPT !.promise = "pending", !.reason = "",
                                  !.listening = FALSE, !.timeout = FALSE,
                                  !.poll = "off", !.attempts = 0]
       IN  script' = IF script.Razorpay
                     THEN settle(call, "resolved", "")
                     ELSE IF script.existingScript
                     THEN checkRazorpay(call, "existing")
                     ELSE [call EXCEPT !.existingScript = TRUE, !.element = "loading",
                                       !.listening = TRUE, !.timeout = TRUE]
    /\ UNCHANGED appVars

\* setTimeout(checkRazorpay, 100) fires
CheckRazorpayTimer ==
    /\ script.poll # "off"
    /\ script' = checkRazorpay(script, script.poll)
    /\ UNCHANGED appVars

\* the script element fires load: script.onload of the call that created it
ScriptOnload ==
    /\ script.element = "loading"
    /\ script' = IF script.listening
                 THEN checkRazorpay([script EXCEPT !.element = "loaded", !.timeout = FALSE,
                                                   !.attempts = 0], "onload")
                 ELSE [script EXCEPT !.element = "loaded"]
    /\ UNCHANGED appVars

\* the script element fires error: script.onerror rejects first, so the
\* reject of the listener added after it finds the promise settled
ScriptOnerror ==
    /\ script.element = "loading"
    /\ script' = IF script.listening
                 THEN settle([script EXCEPT !.element = "failed", !.timeout = FALSE],
                             "rejected", "Failed to load Razorpay script - network error")
                 ELSE [script EXCEPT !.element = "failed"]
    /\ UNCHANGED appVars

ScriptTimeout_NoReject ==
    /\ script.timeout
    /\ script' = [script EXCEPT !.timeout = FALSE]
    /\ UNCHANGED appVars

\* the 10-second timeout of a new script fires
ScriptTimeout ==
    /\ script.timeout
    /\ script' = settle([script EXCEPT !.timeout = FALSE], "rejected",
                        "Razorpay script load timeout - new script")
    /\ UNCHANGED appVars

\* checkout.js runs and defines window.Razorpay
RazorpayDefined ==
    /\ script.element \in {"loading", "loaded"}
    /\ ~script.Razorpay
    /\ script' = [script EXCEPT !.Razorpay = TRUE]
    /\ UNCHANGED appVars

InitDocs == {NoDoc} \cup {Doc("Free Trial", r, FREE_LIMIT_SECONDS - r) : r \in InitRemaining}

\* the call view is not mounted
InitSession ==
    /\ mounted = FALSE
    /\ isConnected = FALSE
    /\ isTimerRunning = FALSE
    /\ conversationTime = 0
    /\ permissionGranted = FALSE
    /\ showSubscriptionModal = FALSE
    /\ autoStartInitiatedRef = FALSE
    /\ micPending = 0
    /\ conv = "off"
    /\ endCalls = 0
    /\ isWebViewDetected = FALSE
    /\ autoTimer = NoAutoTimer
    /\ handoffs = 0
    /\ pay = NoPay
    /\ payOutcome = "none"
    /\ timeText = Rendered(NoUsage)
    /\ script = NoScript

\* the view before it is mounted, in a browser with a media API
InitView ==
    /\ InitSession
    /\ hasGetUserMedia = TRUE

\* a signed-in user of the ledger whose record is absent or left by earlier
\* use, or nobody signed up yet
InitLedger ==
    /\ account \in BOOLEAN
    /\ user = account
    /\ signupPc = "idle"
    /\ store \in (IF account THEN InitDocs ELSE {NoDoc})
    /\ usage = NoUsage
    /\ isLoading = FALSE
    /\ ops = <<>>
    /\ hist = [NoHist EXCEPT !.store0 = store]
    /\ InitView

NextLedger ==
    \/ \E i \in 1..Len(ops) : LoadDone(i)
    \/ \E d \in Deltas : DebitIssue(d)
    \/ \E i \in 1..Len(ops) : DebitGet(i)
    \/ \E i \in 1..Len(ops) : DebitPut(i)
    \/ \E p \in Prices : GrantIssue(p)
    \/ \E i \in 1..Len(ops) : GrantPut(i)
    \/ \E i \in 1..Len(ops) : GrantFail(i)
    \/ SignupCreate
    \/ SignupSetDoc
    \/ SignupSetDocFail

SpecLedger == InitLedger /\ [][NextLedger]_vars

\* ----------------------------------------------------------- hook behaviours
\* nobody is signed in, or a signed-in user whose record is absent or has a
\* balance left
InitHook ==
    /\ account \in BOOLEAN
    /\ user = account
    /\ signupPc = "idle"
    /\ store \in (IF account THEN {NoDoc, Doc("Free Trial", 15, FREE_LIMIT_SECONDS - 15)}
                  ELSE {NoDoc})
    /\ usage = NoUsage
    /\ isLoading = FALSE
    /\ ops = <<>>
    /\ hist = [NoHist EXCEPT !.store0 = store]
    /\ InitView

\* the operations of useUserUsage and updateSubscription called directly,
\* with or without a signed-in user; the plan is the first of the modal, or
\* one that is not in the table
NextHook ==
    \/ LoadIssue
    \/ RefreshIssue
    \/ \E i \in 1..Len(ops) : LoadDone(i)
    \/ DebitIssue(DEBIT_SECONDS)
    \/ \E i \in 1..Len(ops) : DebitGet(i)
    \/ \E i \in 1..Len(ops) : DebitPut(i)
    \/ \E p \in {249, 999} : GrantIssue(p)
    \/ \E i \in 1..Len(ops) : GrantPut(i)
    \/ \E i \in 1..Len(ops) : GrantFail(i)

SpecHook == InitHook /\ [][NextHook]_vars

\* ---------------------------------------------------------- grant behaviours
\* periodic debits and grants of every plan, on an absent record or one with
\* a balance left
NextGrant ==
    \/ DebitIssue(DEBIT_SECONDS)
    \/ \E i \in 1..Len(ops) : DebitGet(i)
    \/ \E i \in 1..Len(ops) : DebitPut(i)
    \/ \E i \in 1..Len(ops) : LoadDone(i)
    \/ \E p \in Prices : GrantIssue(p)
    \/ \E i \in 1..Len(ops) : GrantPut(i)
    \/ \E i \in 1..Len(ops) : GrantFail(i)

SpecGrant == InitHook /\ [][NextGrant]_vars

\* ---------------------------------------------------------- app behaviours
\* a signed-in user whose record is absent or left by earlier use; the call
\* view is about to mount
Init ==
    /\ account = TRUE
    /\ user = TRUE
    /\ signupPc = "idle"
    /\ store \in InitDocs
    /\ usage = NoUsage
    /\ isLoading = FALSE
    /\ ops = <<>>
    /\ hist = [NoHist EXCEPT !.store0 = store]
    /\ InitView

Next ==
    \/ \E w \in BOOLEAN : Mount(w)
    \/ \E i \in 1..Len(ops) : LoadDone(i)
    \/ \E i \in 1..Len(ops) : LoadFail(i)
    \/ \E i \in 1..Len(ops) : DebitGet(i)
    \/ \E i \in 1..Len(ops) : DebitPut(i)
    \/ \E i \in 1..Len(ops) : DebitFail(i)
    \/ StartCall
    \/ \E g \in BOOLEAN : MicDone(g)
    \/ AutoStartTimeout
    \/ CloseModal
    \/ OnConnect
    \/ Tick
    \/ Poll
    \/ OnDisconnect
    \/ Unmount

Spec == Init /\ [][Next]_vars

\* ------------------------------------------------ behaviours with errors
\* the app behaviours, and the external session may fail to start or report
\* errors
NextErr ==
    \/ Next
    \/ StartFail
    \/ OnError

SpecErr == Init /\ [][NextErr]_vars

\* ---------------------------------------------------------- call behaviours
\* a signed-in user with 15 seconds left; the call view (in a browser) is
\* about to mount
InitCall ==
    /\ account = TRUE
    /\ user = TRUE
    /\ signupPc = "idle"
    /\ store = Doc("Free Trial", 15, FREE_LIMIT_SECONDS - 15)
    /\ usage = NoUsage
    /\ isLoading = FALSE
    /\ ops = <<>>
    /\ hist = [NoHist EXCEPT !.store0 = store]
    /\ InitView

\* one call after another until the balance is used up; debits and session
\* starts may fail, the session may report errors, the view may unmount
NextCall ==
    \/ Mount(FALSE)
    \/ \E i \in 1..Len(ops) : LoadDone(i)
    \/ \E i \in 1..Len(ops) : DebitGet(i)
    \/ \E i \in 1..Len(ops) : DebitPut(i)
    \/ \E i \in 1..Len(ops) : DebitFail(i)
    \/ StartCall
    \/ \E g \in BOOLEAN : MicDone(g)
    \/ CloseModal
    \/ OnConnect
    \/ StartFail
    \/ Tick
    \/ Poll
    \/ OnDisconnect
    \/ OnError
    \/ EndFail
    \/ Unmount

SpecCall == InitCall /\ [][NextCall]_vars

\* ------------------------------------------- call behaviours, failing loads
\* the call behaviours with loads that may fail; the outcome of the load
\* issued last is recorded
InitCache ==
    /\ account = TRUE
    /\ user = TRUE
    /\ signupPc = "idle"
    /\ store = Doc("Free Trial", 15, FREE_LIMIT_SECONDS - 15)
    /\ usage = NoUsage
    /\ isLoading = FALSE
    /\ ops = <<>>
    /\ hist = [NoHist EXCEPT !.store0 = store, !.newestLoad = "none"]
    /\ InitView

NextCache ==
    \/ NextCall
    \/ \E i \in 1..Len(ops) : LoadFail(i)

SpecCache == InitCache /\ [][NextCache]_vars

\* -------------------------------------------- call behaviours in a WebView
\* the call behaviours, and the view may run in a WebView, where the
\* auto-start goes through the 2-second timeout
NextStart ==
    \/ NextCall
    \/ Mount(TRUE)
    \/ AutoStartTimeout

SpecStart == InitCall /\ [][NextStart]_vars

\* ------------------------------------ call behaviours, media API or none
\* the call view in a browser with or without navigator.mediaDevices
InitMic ==
    /\ account = TRUE /\ user = TRUE /\ signupPc = "idle"
    /\ store = Doc("Free Trial", 15, FREE_LIMIT_SECONDS - 15)
    /\ usage = NoUsage /\ isLoading = FALSE /\ ops = <<>>
    /\ hist = [NoHist EXCEPT !.store0 = store]
    /\ InitSession
    /\ hasGetUserMedia \in BOOLEAN

SpecMic == InitMic /\ [][NextCall]_vars

\* ----------------------------------------------------- purchase behaviours
\* a signed-in user whose balance is used up; the call view (in a browser)
\* is about to mount
InitPay ==
    /\ account = TRUE
    /\ user = TRUE
    /\ signupPc = "idle"
    /\ store = Doc("Free Trial", 0, FREE_LIMIT_SECONDS)
    /\ usage = NoUsage
    /\ isLoading = FALSE
    /\ ops = <<>>
    /\ hist = [NoHist EXCEPT !.store0 = store]
    /\ InitView

\* the call view with its subscription modal: calls, debits and purchases
NextPay ==
    \/ Mount(FALSE)
    \/ \E i \in 1..Len(ops) : LoadDone(i)
    \/ \E i \in 1..Len(ops) : DebitGet(i)
    \/ \E i \in 1..Len(ops) : DebitPut(i)
    \/ StartCall
    \/ \E g \in BOOLEAN : MicDone(g)
    \/ CloseModal
    \/ OnConnect
    \/ Tick
    \/ OnDisconnect
    \/ \E p \in PlanPrices : PayContinue(p)
    \/ \E e \in ScriptErrors, live \in BOOLEAN :
          PayOpenFail(ShouldRetry(openRazorpayGatewayError(e), live))
    \/ PayOpened
    \/ PayDismiss
    \/ \E r \in Responses : PayHandler(r)
    \/ \E i \in 1..Len(ops) : GrantPut(i)
    \/ \E i \in 1..Len(ops) : GrantFail(i)
    \/ Unmount

SpecPay == InitPay /\ [][NextPay]_vars

\* the same, and the view may run in a WebView
NextAuto ==
    \/ NextPay
    \/ Mount(TRUE)
    \/ AutoStartTimeout

SpecAuto == InitPay /\ [][NextAuto]_vars

\* a signed-in user with one second left, who uses it up and then buys
InitTopUp ==
    /\ account = TRUE
    /\ user = TRUE
    /\ signupPc = "idle"
    /\ store = Doc("Free Trial", 1, FREE_LIMIT_SECONDS - 1)
    /\ usage = NoUsage
    /\ isLoading = FALSE
    /\ ops = <<>>
    /\ hist = [NoHist EXCEPT !.store0 = store]
    /\ InitView

\* the same, and the exhaustion poll, which fires once the second is used up
NextTopUp ==
    \/ NextPay
    \/ Poll

SpecTopUp == InitTopUp /\ [][NextTopUp]_vars

\* ------------------------------------------------ behaviours with failures
\* the call view with its subscription modal, and every awaited call of the
\* store, of the external session and of the gateway may reject
NextFail ==
    \/ NextPay
    \/ \E i \in 1..Len(ops) : LoadFail(i)
    \/ \E i \in 1..Len(ops) : DebitFail(i)
    \/ StartFail
    \/ EndFail

SpecFail == InitPay /\ [][NextFail]_vars

\* ------------------------------------------------------ loadRazorpayScript
\* calls of loadRazorpayScript, one after another, and what the browser does
\* with the script element
NextScript ==
    \/ LoadRazorpayScript
    \/ CheckRazorpayTimer
    \/ ScriptOnload
    \/ ScriptOnerror
    \/ ScriptTimeout
    \/ RazorpayDefined

SpecScript == InitPay /\ [][NextScript]_vars

\* the timers of the page fire
SpecScriptFair ==
    /\ SpecScript
    /\ WF_vars(CheckRazorpayTimer)
    /\ WF_vars(ScriptTimeout)

\* ------------------------------------------------------ display behaviours
\* the largest balance a grant writes
LargestGrant == PlanSeconds(2250)

\* a signed-in user on the largest plan who has used any part of it; the
\* hook is driven directly
InitFormat ==
    /\ account = TRUE
    /\ user = TRUE
    /\ signupPc = "idle"
    /\ store \in {Doc("Premium", r, LargestGrant - r) : r \in 0..LargestGrant}
    /\ usage = NoUsage
    /\ isLoading = FALSE
    /\ ops = <<>>
    /\ hist = [NoHist EXCEPT !.store0 = store]
    /\ InitView

\* the cache is loaded and reloaded, and each render formats it
NextFormat ==
    \/ LoadIssue
    \/ RefreshIssue
    \/ \E i \in 1..Len(ops) : LoadDone(i)
    \/ \E i \in 1..Len(ops) : LoadFail(i)

SpecFormat == InitFormat /\ [][NextFormat]_vars

\* ================================================================== claims
\* the stored balance an updateUserUsage call found (absent: the free limit)
StoredRemaining(d) == IF d.exists THEN d.remaining ELSE FREE_LIMIT_SECONDS

\* C1: for updateUserUsage calls d1..dn on an initially absent record, under
\* every interleaving, once all calls have completed the stored remaining is
\* max(0, FREE_LIMIT_SECONDS - sum(di)) and the stored total is sum(di).
C1_Claim ==
    (~hist.store0.exists /\ ~hist.granted /\ hist.calls # <<>> /\ ops = <<>>)
    => /\ store.exists
       /\ store.remaining = Max(0, FREE_LIMIT_SECONDS - SumSeq(hist.calls))
       /\ store.total = SumSeq(hist.calls)

\* C2: an updateUserUsage(delta) whose read-modify-write is not overlapped
\* (the record it writes to is the record it read) writes total = old total
\* + delta and remaining = max(0, old remaining - delta), also for old
\* remaining = 0; on an absent record it creates total = delta and
\* remaining = max(0, FREE_LIMIT_SECONDS - delta).
C2_Claim ==
    [][\A i \in 1..Len(ops) :
        (DebitPut(i) /\ ops[i].snap = store)
        => /\ store'.exists
           /\ store'.total = store.total + ops[i].delta
           /\ store'.remaining = Max(0, StoredRemaining(store) - ops[i].delta)]_vars

\* C3: every store write of a debit leaves the stored remaining less than or
\* equal to its value before the write.
C3_Claim ==
    [][\A i \in 1..Len(ops) :
        DebitPut(i) => store'.remaining <= StoredRemaining(store)]_vars

\* C4: the stored remaining is >= 0 in every reachable state, and a debit
\* larger than the balance it read writes 0.
C4_Claim ==
    /\ [](store.remaining >= 0)
    /\ [][\A i \in 1..Len(ops) :
            (DebitPut(i) /\ ops[i].delta > StoredRemaining(ops[i].snap))
            => store'.remaining = 0]_vars

\* C4, the part that holds: the stored remaining is never negative.
RemainingNonNegative == store.remaining >= 0

\* C5: two debits of 10 seconds on a record with balance r >= 0, the second
\* issued before the write of the first resolved: after both completed the
\* stored remaining r' satisfies 0 <= r' <= max(0, r - 10).
C5_Claim ==
    (/\ hist.store0.exists
     /\ hist.calls = <<DEBIT_SECONDS, DEBIT_SECONDS>>
     /\ hist.overlap
     /\ hist.grants = 0
     /\ ops = <<>>)
    => /\ 0 <= store.remaining
       /\ store.remaining <= Max(0, hist.store0.remaining - DEBIT_SECONDS)

\* C6: with no plan grant, the stored total_conversation_seconds never
\* decreases from one store state to the next, under any interleaving of
\* updateUserUsage calls.
C6_Claim ==
    [][\A i \in 1..Len(ops) :
        (DebitPut(i) /\ ~hist.granted) => store'.total >= store.total]_vars

\* the cached record is loaded with a positive balance and no load is flagged
BalanceKnownPositive(u, l) == u.loaded /\ ~l /\ u.remaining_seconds > 0

\* C7: startCall goes on to start the external session (requests the
\* microphone, then calls startSession) only when, at the moment it is
\* called, the cached usage is loaded, no load is flagged and
\* remaining_seconds > 0; otherwise nothing is started, and with a loaded
\* balance <= 0 the subscription modal is opened.
C7_StartCallGuard ==
    [][/\ micPending' > micPending => BalanceKnownPositive(usage', isLoading')
       /\ (conv # "starting" /\ conv' = "starting")
          => (micPending' = micPending - 1 \/ BalanceKnownPositive(usage', isLoading'))
       /\ (StartCall /\ ~BalanceKnownPositive(usage, isLoading))
          => /\ conv' = conv
             /\ micPending' = micPending
             /\ (usage.loaded /\ ~isLoading) => showSubscriptionModal']_vars

C7_Witness ==
    /\ conv = "starting"
    /\ BalanceKnownPositive(usage, isLoading)
    /\ permissionGranted

\* C8: after a load failed and until a later load succeeds, canStartCall is
\* false and startCall starts no session.
C8_Claim ==
    /\ [](hist.loadFailed => ~canStartCall(usage))
    /\ [][(hist.loadFailed /\ hist.loadFailed')
          => /\ micPending' <= micPending
             /\ (conv' = "starting" /\ conv # "starting") => micPending' < micPending]_vars

\* C9: canStartCall is true exactly when the cached usage is present and its
\* remaining_seconds > 0: false for 0 and for an absent cache, true for 1
\* and for FREE_LIMIT_SECONDS.
C9_CanStartCall ==
    /\ canStartCall(usage) <=> (usage # NoUsage /\ usage.remaining_seconds > 0)
    /\ ~canStartCall(NoUsage)
    /\ ~canStartCall(Usage(FREE_LIMIT_SECONDS, 0))
    /\ canStartCall(Usage(FREE_LIMIT_SECONDS - 1, 1))
    /\ canStartCall(Usage(0, FREE_LIMIT_SECONDS))

C9_Witness == usage.loaded /\ usage.remaining_seconds = 1 /\ canStartCall(usage)

\* C10: with a stored and cached balance of 15 seconds at the start of the
\* session, the controller has invoked endSession by the time the timer
\* shows 15 seconds: the timer never shows more than 15 seconds without it.
\* (Stated for the case in which the debit of second 10 and its reload have
\* completed, so the cache shows 5.)
C10_Claim ==
    (/\ hist.store0.exists /\ hist.store0.remaining = 15
     /\ hist.calls = <<DEBIT_SECONDS>>
     /\ ops = <<>>
     /\ usage.loaded /\ usage.remaining_seconds = 5
     /\ isConnected)
    => (conversationTime <= 15 \/ endCalls > 0)

\* C11: whenever the cached remaining_seconds is <= 0 while the session is
\* connected (and the view is mounted), the controller has stopped the tick
\* timer and invoked endSession: the render that brings the refreshed
\* balance runs the auto-end effect, so no state is left in which a
\* connected session ticks with a cached balance <= 0 (the 1-second poll
\* repeats the same endCall).
C11_ExhaustionEndsCall ==
    (mounted /\ isConnected /\ usage.loaded /\ usage.remaining_seconds <= 0)
    => (~isTimerRunning /\ endCalls > 0)

C11_Witness ==
    /\ mounted /\ isConnected /\ usage.loaded /\ usage.remaining_seconds = 0
    /\ conversationTime >= DEBIT_SECONDS
    /\ hist.calls # <<>>
    /\ ~isTimerRunning /\ conv = "ending"
\* C12: an updateSubscription call that succeeds for a plan of price 249,
\* 1150 or 2250 leaves the record with (plan, remaining) = ("Basic", 2400),
\* ("Pro", 12000) or ("Premium", 24000) and total_conversation_seconds = 0,
\* whatever the record held before.
C12_GrantTable ==
    [][\A i \in 1..Len(ops) :
        GrantPut(i) =>
            /\ ops[i].delta \in {249, 1150, 2250}
            /\ store'.exists /\ store'.total = 0
            /\ ops[i].delta = 249 => store'.plan = "Basic" /\ store'.remaining = 2400
            /\ ops[i].delta = 1150 => store'.plan = "Pro" /\ store'.remaining = 12000
            /\ ops[i].delta = 2250
               => store'.plan = "Premium" /\ store'.remaining = 24000]_vars

C12_Witness ==
    /\ store = Doc("Premium", 24000, 0)
    /\ hist.granted /\ hist.calls # <<>>
    /\ hist.store0.total > 0

\* C13: the store is mutated by a plan grant only after the gateway's
\* success handler ran and verifyPayment(response) returned true (both the
\* payment id and the order id present); every other change of the record is
\* a debit, and while the gateway is dismissed, fails to open or the
\* verification fails, no grant is in flight and nothing is written.
C13_GrantOnlyAfterVerifiedPayment ==
    [][/\ \A i \in 1..Len(ops) :
            GrantPut(i) => /\ pay.phase = "granting"
                           /\ pay.response.razorpay_payment_id
                           /\ pay.response.razorpay_order_id
       /\ store' # store
          => \/ \E i \in 1..Len(ops) : DebitPut(i)
             \/ \E i \in 1..Len(ops) : GrantPut(i)
       /\ (\E j \in 1..Len(ops') : ops'[j].kind = "grant")
          => /\ pay'.phase = "granting"
             /\ pay'.response.razorpay_payment_id
             /\ pay'.response.razorpay_order_id
       /\ (pay.phase \in {"opening", "open"} /\ pay'.phase # "granting")
          => store' = store]_vars

C13_Witness ==
    /\ hist.granted /\ payOutcome = "Payment Successful!"
    /\ store.plan \in {"Basic", "Pro", "Premium"}
    /\ mounted /\ usage.loaded /\ usage.remaining_seconds = store.remaining

\* C14: after a plan grant made by the payment handler succeeded the cache
\* is reloaded from the store, and when that reload completes the cached
\* remaining_seconds equals the granted seconds, canStartCall is true and
\* startCall is no longer rejected.
C14_Claim ==
    [][\A i \in 1..Len(ops) :
        /\ (GrantPut(i) /\ pay.phase = "granting" /\ mounted)
           => /\ isLoading'
              /\ ops'[Len(ops')] = Op("load", "getDoc", ops[i].delta, NoDoc)
        /\ (LoadDone(i) /\ ops[i].delta # 0 /\ mounted)
           => /\ usage'.remaining_seconds = PlanSeconds(ops[i].delta)
              /\ canStartCall(usage')
              /\ StartCallOutcome(usage', isLoading') = "go"]_vars
\* C15: when the verification succeeded but the plan grant failed, the
\* outcome shown is "paid but not credited", distinct from success and from
\* the generic payment failure; the plan-selected callback is not invoked
\* (no reload of the cache is started), the modal is not closed and the
\* record is not written.
C15_PaidNotCredited ==
    [][\A i \in 1..Len(ops) :
        (GrantFail(i) /\ pay.phase = "granting")
        => /\ payOutcome' = "Payment Successful but Update Failed"
           /\ payOutcome' \notin {"Payment Successful!", "Payment Failed",
                                  "Payment Verification Failed"}
           /\ showSubscriptionModal' = showSubscriptionModal
           /\ ops' = RemoveAt(ops, i)
           /\ isLoading' = isLoading /\ usage' = usage
           /\ store' = store /\ hist'.granted = hist.granted]_vars

C15_Witness ==
    /\ payOutcome = "Payment Successful but Update Failed"
    /\ pay = NoPay
    /\ mounted /\ showSubscriptionModal
    /\ ~hist.granted /\ store = hist.store0
    /\ ops = <<>>
\* C16: for every session that reached Active the hand-off to the host
\* (returnToFlutterFlow) is dispatched exactly once, whichever way the
\* session ends; in particular it is never dispatched a second time for the
\* same session, also when an external error is followed by a disconnect.
C16_Claim == handoffs <= 1
\* C17: unmounting the view while a session is Active clears the tick timer
\* and invokes the endCall path (endSession); after the unmount the elapsed
\* seconds are never incremented again and no further periodic debit is
\* issued.
C17_UnmountStopsTicking ==
    [][/\ (Unmount /\ isConnected)
          => /\ ~isTimerRunning'
             /\ endCalls' >= 1 /\ endCalls' = Saturate(endCalls)
             /\ conv' = EndSession(conv)
       /\ hist.unmounted
          => /\ ~isTimerRunning'
             /\ conversationTime' = conversationTime
             /\ hist'.calls = hist.calls]_vars

C17_Witness ==
    /\ hist.unmounted /\ ~mounted
    /\ conv = "ending" /\ endCalls = 1
    /\ hist.calls # <<>>
    /\ ~isTimerRunning
\* C18: loadUserUsage never writes to the store; for an absent record it
\* caches remaining_seconds = 1200 and total_conversation_seconds = 0 and
\* the record stays absent: an absent record is first created by the write
\* of a debit.
C18_LoadNeverWrites ==
    [][/\ \A i \in 1..Len(ops) :
            LoadDone(i) => /\ store' = store
                           /\ ~store.exists
                              => usage' = [loaded |-> TRUE,
                                           total_conversation_seconds |-> 0,
                                           remaining_seconds |-> 1200]
       /\ (LoadIssue \/ RefreshIssue) => store' = store
       /\ (~store.exists /\ store'.exists)
          => \E i \in 1..Len(ops) : DebitPut(i)]_vars

C18_Witness ==
    /\ ~store.exists
    /\ usage.loaded /\ usage.remaining_seconds = 1200
    /\ usage.total_conversation_seconds = 0
    /\ ~isLoading /\ ops = <<>>
    /\ hist.grants > 0
\* C19: with no user id no ledger operation touches the store or the cache:
\* loadUserUsage and updateUserUsage return at their guard, refreshUserUsage
\* does nothing and updateSubscription returns failure, so the record, the
\* cache and isLoading stay as they were and nothing is in flight.
C19_NoUserNoLedger ==
    ~user => /\ store = hist.store0
             /\ usage = NoUsage
             /\ ~isLoading
             /\ ops = <<>>
             /\ hist.calls = <<>> /\ hist.grants = 0

C19_Witness ==
    /\ ~user
    /\ hist.denied = {"loadUserUsage", "updateUserUsage", "refreshUserUsage",
                      "updateSubscription"}
\* a field below 100 written with two digits
TwoDigits(n) == IF n < 10 THEN "0" \o toString(n) ELSE toString(n)

\* C20: for every cached remaining_seconds r from 0 to the largest grant
\* (24000), formatRemainingTime shows floor(r/60) and r mod 60 and
\* formatRemainingTimeDetailed shows floor(r/3600), floor((r mod 3600)/60)
\* and r mod 60, every field as exactly two zero-padded digits ("MM:SS" has
\* 5 characters, "HH:MM:SS" has 8); 0 gives "00:00", 725 gives "12:05" and
\* detailed 3725 gives "01:02:05".
C20_Claim ==
    (usage.loaded /\ usage.remaining_seconds \in 0..24000)
    => LET r == usage.remaining_seconds
       IN  /\ timeText.short = TwoDigits(r \div 60) \o ":" \o TwoDigits(r % 60)
           /\ Len(timeText.short) = 5
           /\ timeText.detailed = TwoDigits(r \div 3600) \o ":"
                                      \o TwoDigits((r % 3600) \div 60) \o ":"
                                      \o TwoDigits(r % 60)
           /\ Len(timeText.detailed) = 8
           /\ r = 0 => timeText.short = "00:00"
           /\ r = 725 => timeText.short = "12:05"
           /\ r = 3725 => timeText.detailed = "01:02:05"
\* C21: in every state of a session with elapsed time e (Active, or ended
\* and not yet followed by another connect) the number of debits issued in
\* that session is exactly floor(e/10), each for exactly 10 seconds, and the
\* un-flushed delta e - 10*floor(e/10) is in 0..9: no debit is issued for the
\* partial interval when the session ends.
C21_DebitsPerSession ==
    mounted
    => /\ Len(hist.calls) - hist.connectCalls = conversationTime \div 10
       /\ \A k \in 1..Len(hist.calls) : k > hist.connectCalls => hist.calls[k] = 10
       /\ conversationTime
              - 10 * (Len(hist.calls) - hist.connectCalls) \in 0..9

C21_Witness ==
    /\ mounted /\ ~isConnected /\ conv = "off"
    /\ conversationTime \in 1..9
    /\ hist.connectCalls = 1 /\ Len(hist.calls) = 1
\* C22: a periodic debit whose read or write fails is dropped: it is not
\* retried or issued again, and the store, the cached record and the timer
\* are left as they were; the timer ticks whatever is in flight, and a debit
\* is issued only by the tick that brings the elapsed seconds to a multiple
\* of 10, so the next one comes 10 ticks after the failed one.
C22_FailedDebitDropped ==
    [][/\ \A i \in 1..Len(ops) :
            DebitFail(i) => /\ ops' = RemoveAt(ops, i)
                            /\ store' = store /\ usage' = usage
                            /\ isLoading' = isLoading
                            /\ hist'.calls = hist.calls
                            /\ conversationTime' = conversationTime
                            /\ isTimerRunning' = isTimerRunning
       /\ hist'.calls # hist.calls
          => /\ conversationTime' = conversationTime + 1
             /\ conversationTime' % 10 = 0
             /\ hist'.calls = Append(hist.calls, 10)
       /\ (isTimerRunning /\ conversationTime < MaxTime
             /\ Len(hist.calls) < MaxCalls)
          => ENABLED Tick]_vars

C22_Witness ==
    /\ mounted /\ isConnected /\ isTimerRunning
    /\ conversationTime >= 20
    /\ hist.calls = <<10, 10>> /\ ops = <<>>
    /\ store = hist.store0
    /\ usage.loaded /\ usage.remaining_seconds = 15
\* C23: every connect of the external session makes the mounted controller
\* connected with conversationTime = 0 and the timer started (the effects of
\* that same render stop it again only when the cached balance is used up);
\* conversationTime changes in no other way than by a tick of a running
\* timer, which adds exactly 1, so it never decreases within a session and
\* does not change while no session is active (leaving the view resets it).
C23_ElapsedSeconds ==
    [][/\ (OnConnect /\ mounted)
          => /\ isConnected' /\ conversationTime' = 0
             /\ isTimerRunning' \/ ExhaustFires(usage, TRUE)
       /\ conversationTime' # conversationTime
          => \/ /\ isTimerRunning /\ isConnected /\ conv = "on"
                /\ conversationTime' = conversationTime + 1
             \/ conv = "starting" /\ conv' # "starting" /\ conversationTime' = 0
             \/ mounted /\ ~mounted' /\ conversationTime' = 0]_vars

C23_Witness ==
    /\ mounted /\ isConnected /\ isTimerRunning /\ conv = "on"
    /\ hist.connectCalls = 1
    /\ conversationTime = 3
\* C24: updateUserUsage is called only by a tick of an active session; a
\* disconnect, a session error, a forced end or leaving the view stops the
\* timer, and only the next connect starts it again, so no debit is issued
\* in between (debits already in flight may still complete).
C24_DebitsOnlyWhileActive ==
    [][/\ hist'.calls # hist.calls
          => /\ mounted /\ isConnected /\ isTimerRunning /\ conv = "on"
             /\ conversationTime' = conversationTime + 1
       /\ (OnDisconnect \/ OnError \/ Poll \/ Unmount) => ~isTimerRunning'
       /\ (~isTimerRunning /\ isTimerRunning') => OnConnect]_vars

C24_Witness ==
    /\ mounted /\ isConnected /\ ~isTimerRunning /\ conv = "on"
    /\ conversationTime \in 10..19
    /\ hist.calls = <<10>> /\ ops = <<>>
    /\ store.remaining = 5
\* C25: after a failure during a session (an error reported by the external
\* session, or endSession rejecting inside endCall) the controller is no
\* longer marked connected and its timer is stopped.
C25_Claim ==
    [][((OnError \/ EndFail) /\ mounted) => (~isConnected' /\ ~isTimerRunning')]_vars
\* C26: once startSession has rejected, the session is started again only
\* by a startCall of the user (directly, or after its microphone request).
C26_Claim ==
    [][(conv = "failed" /\ (micPending' > micPending \/ conv' = "starting"))
       => (StartCall \/ \E g \in BOOLEAN : MicDone(g))]_vars
\* C27: a denied, failing or unavailable microphone request never prevents
\* the call: a startCall that passes the balance guard either asks for the
\* microphone or invokes startSession at once (permission already granted, or
\* no media API), and the end of the microphone request, granted or denied,
\* invokes startSession.
C27_MicNeverBlocksCall ==
    [][/\ (StartCall /\ StartCallOutcome(usage, isLoading) = "go")
          => IF ~permissionGranted /\ hasGetUserMedia
             THEN micPending' = micPending + 1
             ELSE conv \in {"off", "failed"} => conv' = "starting"
       /\ (micPending > 0 /\ conv \in {"off", "failed"})
          => \A g \in BOOLEAN : ENABLED (MicDone(g) /\ conv' = "starting")
       /\ micPending' < micPending
          => (conv \in {"off", "failed"} => conv' = "starting")]_vars

C27_Witness ==
    /\ mounted /\ hasGetUserMedia /\ ~permissionGranted
    /\ isConnected /\ isTimerRunning /\ conv = "on"
\* C28: conversation.startSession is invoked (here: at the end of a
\* microphone request) only while no earlier start is pending and no session
\* is active.
C28_Claim ==
    [][micPending' < micPending => conv \in {"off", "failed"}]_vars
C30_Claim ==
    (ops = <<>> /\ hist.granted)
    => \E p \in Prices :
          /\ PlanName(p) # "" /\ store.plan = PlanName(p)
          /\ store.remaining >= PlanSeconds(p) - SumSeq(hist.calls)
C32_Claim == (mounted /\ LoadsInFlight > 0) => isLoading
\* C33: endSession is invoked at most once per session that connected, and
\* never for a session that has already disconnected.
C33_Claim ==
    [][endCalls' > endCalls => (endCalls = 0 /\ conv' # "off")]_vars
\* C34: per mounted view the automatic start fires at most once, and only
\* with a loaded record, no load flagged and remaining_seconds > 0: the step
\* that sets autoStartInitiatedRef is the only one that starts a call, or
\* arms the 2-second timeout, without a press of the button; while the ref
\* is unset no such balance has been seen, so after a first balance of 0
\* the start stays armed and fires with the first positive balance.
C34_AutoStartOnce ==
    [][/\ (~autoStartInitiatedRef /\ autoStartInitiatedRef')
          => /\ mounted /\ BalanceKnownPositive(usage', isLoading')
             /\ IF isWebViewDetected
                THEN autoTimer'.phase = "armed"
                ELSE micPending' = micPending + 1 \/ conv' = StartSession(conv)
       /\ (autoStartInitiatedRef /\ mounted') => autoStartInitiatedRef'
       /\ (autoTimer'.phase = "armed" /\ autoTimer.phase # "armed")
          => ~autoStartInitiatedRef
       /\ (micPending' > micPending \/ (conv' = "starting" /\ conv # "starting"))
          => \/ StartCall \/ AutoStartTimeout \/ \E g \in BOOLEAN : MicDone(g)
             \/ ~autoStartInitiatedRef
       /\ (mounted /\ BalanceKnownPositive(usage, isLoading)) => autoStartInitiatedRef]_vars

C34_Witness ==
    /\ mounted /\ autoStartInitiatedRef
    /\ hist.store0.remaining = 0 /\ hist.granted
    /\ usage.loaded /\ usage.remaining_seconds > 0
    /\ micPending = 1 /\ conv = "off"
\* C35: an updateSubscription call that returns failure leaves the stored
\* record as it was: a price outside {249, 1150, 2250} or a missing user
\* returns at once without a write, a rejected updateDoc writes nothing, and
\* for a user without a stored record updateDoc can only reject, so no
\* record is created.
C35_FailedGrantWritesNothing ==
    [][/\ \A p \in Prices :
            GrantIssue(p)
            => /\ store' = store
               /\ (NoUserId \/ p \notin {249, 1150, 2250}) => ops' = ops
       /\ \A i \in 1..Len(ops) :
            /\ GrantFail(i) => store' = store
            /\ (ops[i].kind = "grant" /\ ~store.exists)
               => (~ENABLED GrantPut(i) /\ ENABLED GrantFail(i))
       /\ (~store.exists /\ store'.exists)
          => \E i \in 1..Len(ops) : DebitPut(i)]_vars

C35_Witness ==
    /\ user /\ ~store.exists
    /\ hist.grants = 1 /\ ~hist.granted
    /\ ops = <<>> /\ hist.calls = <<>>

\* C36: one press of Continue makes at most 3 payment attempts (retryCount
\* never exceeds maxRetries), makes no retry after an error that is not to be
\* retried (the gateway blocked by CSP, or a 400 with a live key in
\* development) but ends with "Payment Failed", and opens the gateway dialog
\* only from an attempt that is still opening, after which no attempt fails
\* or opens again.
C36_Claim ==
    [][/\ pay'.retryCount <= maxRetries
       /\ \A e \in ScriptErrors, live \in BOOLEAN :
            (/\ ("CSP" \in e.includes \/ ("400" \in e.includes /\ live))
             /\ PayOpenFail(ShouldRetry(openRazorpayGatewayError(e), live)))
            => /\ pay' = NoPay
               /\ payOutcome' = "Payment Failed"
       /\ PayOpened => (pay.phase = "opening" /\ pay'.phase = "open")
       /\ pay.phase = "open" => pay'.phase \in {"open", "granting", "idle"}]_vars

\* C37: signup is all-or-nothing.  When it returns success = false (its
\* catch ran: here setDoc rejected) neither the identity account nor the
\* stored record exists; when it returns success = true (setDoc resolved) the
\* account exists and the stored record is plan "Free Trial", remaining 1200,
\* total_conversation_seconds 0.
C37_Claim ==
    [][/\ SignupSetDocFail => (~account' /\ ~store'.exists)
       /\ SignupSetDoc => (account' /\ store' = Doc("Free Trial", 1200, 0))]_vars

\* C38: every call of loadRazorpayScript settles: a pending call is
\* eventually resolved or rejected.  It is resolved only while window.Razorpay
\* is defined.  The loop on a script tag found in the document stops after at
\* most 50 checks and the loop after onload after at most 20, each rejecting
\* at its last check, and the 10-second timeout of a new script rejects a
\* call that is still pending.
C38_LoadSettles ==
    /\ [](script.promise = "resolved" => script.Razorpay)
    /\ [](script.attempts <= (IF script.listening THEN maxAttemptsOnload
                                                   ELSE maxAttemptsExisting))
    /\ [](script.poll # "off" => script.attempts < maxAttempts(script.poll))
    /\ [](script.poll # "off" => ~script.timeout)
    /\ [][ScriptTimeout => (script.promise = "pending" /\ script'.promise = "rejected")]_vars
    /\ [][(script.promise = "pending" /\ script'.promise = "resolved") => script'.Razorpay]_vars
    /\ (script.promise = "pending") ~> (script.promise \in {"resolved", "rejected"})

C38_Witness ==
    /\ script.promise = "rejected"
    /\ script.reason = "Razorpay script load timeout - existing script"
    /\ script.attempts = maxAttemptsExisting
    /\ script.element = "loading"
    /\ ~script.Razorpay
====
